---- MODULE Spec2Model ----
(***************************************************************************)
(* Model of deployment/test-deployment.py: the Dittofeed deployment smoke  *)
(* test.  main() runs the endpoint checks one after the other, collects    *)
(* (name, passed) pairs in the list `results`, prints a summary and        *)
(* returns the process exit code.                                          *)
(*                                                                         *)
(* The network is the environment: every requests.get() call draws its     *)
(* outcome (a response with a status code and a body, or an exception)     *)
(* independently from Outcomes.  `requests` is the log of the GETs issued. *)
(***************************************************************************)
EXTENDS Integers, Sequences, FiniteSets, TLC

VARIABLES
    AUTH_MODE,   \* os.getenv('AUTH_MODE', 'multi-tenant'), fixed for the run
    pc,          \* position of main() (or of the single test_endpoint call)
    results,     \* main's list of (name, passed) pairs
    requests,    \* log of the HTTP GETs issued so far, in order
    call,        \* arguments of the latest test_endpoint call, <<>> if none
    ret,         \* <<value>> returned by the latest test_endpoint call
    passed,      \* main's local `passed`, <<>> before the summary
    total,       \* main's local `total`, <<>> before the summary
    exit_code    \* <<value>> returned by main(), <<>> while it runs

vars == <<AUTH_MODE, pc, results, requests, call, ret, passed, total, exit_code>>

----------------------------------------------------------------------------
(* Configuration *)

API_URL == "https://api.com.caramelme.com"

DASHBOARD_URL == "https://dashboard.com.caramelme.com"

HEALTH_URL == API_URL \o "/health"

WORKSPACES_URL == API_URL \o "/api/workspaces"

\* Values the AUTH_MODE environment variable is drawn from.
AuthModes == {"multi-tenant", "single-tenant", "Multi-Tenant", ""}

\* Defaults of test_endpoint's parameters.
DefaultExpectedStatus == 200

DefaultTimeout == 10

----------------------------------------------------------------------------
(* The environment: what one GET can produce *)

\* Status codes a final (redirect-followed) response may carry.
Statuses == {200, 301, 302, 304, 404, 500}

\* Exceptions requests.get() may raise, named by the except clause's class;
\* "Exception" stands for any exception that is neither of the first two.
Exceptions == {"ConnectionError", "Timeout", "Exception"}

Response(s, j) == [exc |-> "none", status |-> s, json_ok |-> j]

Raised(e) == [exc |-> e, status |-> 0, json_ok |-> FALSE]

\* json_ok: whether response.json() parses the body.  The body is read only
\* when the status is 200, so it is left FALSE for the other statuses.
Outcomes ==
    {Response(s, FALSE) : s \in Statuses}
        \cup {Response(200, TRUE)}
        \cup {Raised(e) : e \in Exceptions}

----------------------------------------------------------------------------
(* Pure parts of the code *)

caught_only_network(exc) == exc \in {"ConnectionError", "Timeout"}

\* The except clauses of test_endpoint: does one of them catch exc?
caught(exc) == exc \in {"ConnectionError", "Timeout", "Exception"}

test_endpoint_exact_only(o, expected_status) ==
    IF o.exc # "none" THEN FALSE
    ELSE IF o.status = expected_status THEN TRUE
    ELSE FALSE

test_endpoint_no_expected(o, expected_status) ==
    IF o.exc # "none" THEN FALSE
    ELSE IF o.status \in {200, 301, 302, 304} THEN TRUE
    ELSE FALSE

test_endpoint_no_304(o, expected_status) ==
    IF o.exc # "none" THEN FALSE
    ELSE IF o.status = expected_status THEN TRUE
    ELSE IF o.status \in {200, 301, 302} THEN TRUE
    ELSE FALSE

\* Return value of test_endpoint for the outcome o of its GET.
test_endpoint(o, expected_status) ==
    IF o.exc # "none" THEN FALSE
    ELSE IF o.status = expected_status THEN TRUE
    ELSE IF o.status \in {200, 301, 302, 304} THEN TRUE
    ELSE FALSE

health_fast_path_status_only(o) == o.exc = "none" /\ o.status = 200

\* test_api_health's own GET: TRUE when it returns True on the spot (status
\* 200 and the body parses); otherwise the bare except or the fall-through
\* leads to the call of test_endpoint.
health_fast_path(o) ==
    /\ o.exc = "none"
    /\ o.status = 200
    /\ o.json_ok

requests_get_retrying(log, url, check, o) ==
    Append(Append(log, [url |-> url, check |-> check, outcome |-> o]),
           [url |-> url, check |-> check, outcome |-> o])

\* requests.get(url, ...): one GET on the wire, with outcome o.
requests_get(log, url, check, o) ==
    Append(log, [url |-> url, check |-> check, outcome |-> o])

results_insert_front(res, name, value) ==
    <<[name |-> name, passed |-> value]>> \o res

\* results.append((name, value))
results_append(res, name, value) ==
    Append(res, [name |-> name, passed |-> value])

is_multi_tenant_not_single(mode) == mode # "single-tenant"

\* AUTH_MODE == 'multi-tenant'
is_multi_tenant(mode) == mode = "multi-tenant"

RECURSIVE count_all(_)
count_all(res) ==
    IF res = <<>> THEN 0 ELSE 1 + count_all(Tail(res))

\* sum(1 for _, result in results if result)
RECURSIVE count_passed(_)
count_passed(res) ==
    IF res = <<>> THEN 0
    ELSE (IF Head(res).passed THEN 1 ELSE 0) + count_passed(Tail(res))

main_return_any_pass(p, t) == IF p > 0 THEN 0 ELSE 1

\* main's return value
main_return(p, t) == IF p = t THEN 0 ELSE 1

----------------------------------------------------------------------------
(* main() *)

Init ==
    /\ AUTH_MODE \in AuthModes
    /\ pc = "test_api_health"
    /\ results = <<>>
    /\ requests = <<>>
    /\ call = <<>>
    /\ ret = <<>>
    /\ passed = <<>>
    /\ total = <<>>
    /\ exit_code = <<>>

\* One call of test_endpoint(url, name, expected_status, timeout) made for the
\* check `check` of main, whose GET has outcome o.  An exception no except
\* clause catches leaves main (pc "aborted"); otherwise the returned value is
\* appended to results and main goes on at `next`.
CheckWithTestEndpoint(check, url, name, expected_status, o, next) ==
    /\ requests' = requests_get(requests, url, check, o)
    /\ call' = <<[url |-> url, name |-> name,
                  expected_status |-> expected_status, timeout |-> DefaultTimeout]>>
    /\ IF o.exc # "none" /\ ~caught(o.exc)
       THEN /\ pc' = "aborted"
            /\ ret' = <<>>
            /\ results' = results
       ELSE /\ pc' = next
            /\ ret' = <<test_endpoint(o, expected_status)>>
            /\ results' = results_append(results, check, test_endpoint(o, expected_status))
    /\ UNCHANGED <<AUTH_MODE, passed, total, exit_code>>

\* test_api_health, up to its own requests.get
test_api_health ==
    /\ pc = "test_api_health"
    /\ \E o \in Outcomes :
        /\ requests' = requests_get(requests, HEALTH_URL, "API Health", o)
        /\ IF health_fast_path(o)
           THEN /\ results' = results_append(results, "API Health", TRUE)
                /\ pc' = "test_api_root"
           ELSE /\ results' = results
                /\ pc' = "test_api_health_fallback"
    /\ UNCHANGED <<AUTH_MODE, call, ret, passed, total, exit_code>>

\* test_api_health: return test_endpoint(url, "API Health")
test_api_health_fallback ==
    /\ pc = "test_api_health_fallback"
    /\ \E o \in Outcomes :
        CheckWithTestEndpoint("API Health", HEALTH_URL, "API Health",
                              DefaultExpectedStatus, o, "test_api_root")

test_api_root ==
    /\ pc = "test_api_root"
    /\ \E o \in Outcomes :
        CheckWithTestEndpoint("API Root", API_URL, "API Root",
                              DefaultExpectedStatus, o, "test_dashboard")

test_dashboard ==
    /\ pc = "test_dashboard"
    /\ \E o \in Outcomes :
        CheckWithTestEndpoint("Dashboard", DASHBOARD_URL, "Dashboard",
                              200, o, "multi_tenant")

\* if AUTH_MODE == 'multi-tenant': the Workspaces check, else nothing
multi_tenant ==
    /\ pc = "multi_tenant"
    /\ IF is_multi_tenant(AUTH_MODE)
       THEN \E o \in Outcomes :
                CheckWithTestEndpoint("Workspaces", WORKSPACES_URL, "Workspaces API",
                                      DefaultExpectedStatus, o, "summary")
       ELSE /\ pc' = "summary"
            /\ UNCHANGED <<AUTH_MODE, results, requests, call, ret,
                           passed, total, exit_code>>

\* The summary and main's return
summary ==
    /\ pc = "summary"
    /\ passed' = <<count_passed(results)>>
    /\ total' = <<Len(results)>>
    /\ exit_code' = <<main_return(count_passed(results), Len(results))>>
    /\ pc' = "done"
    /\ UNCHANGED <<AUTH_MODE, results, requests, call, ret>>

Next ==
    \/ test_api_health
    \/ test_api_health_fallback
    \/ test_api_root
    \/ test_dashboard
    \/ multi_tenant
    \/ summary

Spec == Init /\ [][Next]_vars

\* The script is one thread running to completion: a step that can be taken
\* is taken (every GET returns or raises within its timeout).
FairSpec == Spec /\ WF_vars(Next)

----------------------------------------------------------------------------
(* test_endpoint called on its own, with any arguments *)

TargetURLs == {HEALTH_URL, API_URL, DASHBOARD_URL, WORKSPACES_URL}

Timeouts == {5, DefaultTimeout}

InitEndpoint ==
    /\ AUTH_MODE \in {"multi-tenant"}
    /\ pc = "call"
    /\ results = <<>>
    /\ requests = <<>>
    /\ call \in {<<[url |-> u, name |-> "endpoint", expected_status |-> e, timeout |-> t]>> :
                    u \in TargetURLs, e \in Statuses, t \in Timeouts}
    /\ ret = <<>>
    /\ passed = <<>>
    /\ total = <<>>
    /\ exit_code = <<>>

call_test_endpoint ==
    /\ pc = "call"
    /\ \E o \in Outcomes :
        /\ requests' = requests_get(requests, call[1].url, call[1].name, o)
        /\ IF o.exc # "none" /\ ~caught(o.exc)
           THEN pc' = "aborted" /\ ret' = <<>>
           ELSE pc' = "returned" /\ ret' = <<test_endpoint(o, call[1].expected_status)>>
    /\ UNCHANGED <<AUTH_MODE, results, call, passed, total, exit_code>>

NextEndpoint == call_test_endpoint

SpecEndpoint == InitEndpoint /\ [][NextEndpoint]_vars

----------------------------------------------------------------------------
(* Vocabulary of the properties *)

\* The fixed order of the checks, as names of results entries.
CheckOrder == <<"API Health", "API Root", "Dashboard", "Workspaces">>

SuccessStatuses == {200, 301, 302, 304}

\* The GET completed without exception with a status of the success set.
Succeeded(o) == o.exc = "none" /\ o.status \in SuccessStatuses

\* Indices in the log of the GETs issued for a check / to a URL.
GetsOfCheck(c) == {j \in DOMAIN requests : requests[j].check = c}

GetsToURL(u) == {j \in DOMAIN requests : requests[j].url = u}

LastGetOfCheck(c) == CHOOSE j \in GetsOfCheck(c) : \A k \in GetsOfCheck(c) : k <= j

\* Indices of the results entries named c.
EntriesOf(c) == {i \in DOMAIN results : results[i].name = c}

Recorded(c) == EntriesOf(c) # {}

ResultOf(c) == results[CHOOSE i \in EntriesOf(c) : TRUE].passed

AllPassed == \A i \in DOMAIN results : results[i].passed

NumChecksConfigured == IF AUTH_MODE = "multi-tenant" THEN 4 ELSE 3

----------------------------------------------------------------------------
(* C1 *)

\* C1: main() returns 0 if and only if every entry of results has
\* passed = true, and returns 1 otherwise, whatever the outcomes of the checks
\* and the value of AUTH_MODE.
C1_ExitCodeIffAllPassed ==
    pc = "done" =>
        /\ exit_code \in {<<0>>, <<1>>}
        /\ exit_code = <<0>> <=> AllPassed
        /\ exit_code = <<1>> <=> (\E i \in DOMAIN results : ~results[i].passed)

\* A run that ends with exit code 1 although some check passed.
C1_Witness ==
    /\ pc = "done"
    /\ exit_code = <<1>>
    /\ \E i, j \in DOMAIN results : results[i].passed /\ ~results[j].passed

----------------------------------------------------------------------------
(* C2 *)

AllChecksExecuted ==
    /\ Len(results) = NumChecksConfigured
    /\ \A k \in 1..NumChecksConfigured : GetsOfCheck(CheckOrder[k]) # {}

ApiConnectionErrors ==
    \A j \in DOMAIN requests :
        requests[j].url \in {HEALTH_URL, API_URL, WORKSPACES_URL}
            => requests[j].outcome.exc = "ConnectionError"

\* C2: no outcome of a check (connection failure, timeout, unexpected status,
\* other exception) ends the run early: main is never left by an exception,
\* the summary is always reached, and by then every configured check has been
\* executed and has an entry; when every request to API_URL raised a connection
\* error, API Health and API Root are recorded as failed and the Dashboard
\* check was still executed.
C2_ErrorsNeverEndTheRun ==
    /\ [](pc # "aborted")
    /\ <>(pc = "done")
    /\ [](pc \in {"summary", "done"} =>
            /\ AllChecksExecuted
            /\ ApiConnectionErrors =>
                  /\ ~ResultOf("API Health")
                  /\ ~ResultOf("API Root")
                  /\ GetsOfCheck("Dashboard") # {})

\* A multi-tenant run is finished after every request to API_URL raised a
\* connection error while the dashboard passed.
C2_Witness ==
    /\ pc = "done"
    /\ ApiConnectionErrors
    /\ ~ResultOf("API Health")
    /\ ~ResultOf("API Root")
    /\ ResultOf("Dashboard")
    /\ Len(results) = 4

----------------------------------------------------------------------------
(* C3 *)

\* C3: the Workspaces entry is in results if and only if AUTH_MODE is exactly
\* 'multi-tenant'; for any other value the results list has exactly 3 entries
\* and no request goes to {API_URL}/api/workspaces.
C3_WorkspacesIffMultiTenant ==
    /\ AUTH_MODE # "multi-tenant" => GetsToURL(WORKSPACES_URL) = {}
    /\ pc \in {"summary", "done"} =>
        /\ Recorded("Workspaces") <=> AUTH_MODE = "multi-tenant"
        /\ AUTH_MODE # "multi-tenant" => Len(results) = 3

\* A finished run with an AUTH_MODE that differs from the literal only in case.
C3_Witness ==
    /\ pc = "done"
    /\ AUTH_MODE = "Multi-Tenant"
    /\ Len(results) = 3
    /\ ~Recorded("Workspaces")

----------------------------------------------------------------------------
(* C4 *)

----------------------------------------------------------------------------
(* C5 *)

HealthGetsExpected ==
    IF health_fast_path(requests[1].outcome) THEN 1 ELSE 2

----------------------------------------------------------------------------
(* C6 *)

ResultsInOrder ==
    /\ Len(results) <= Len(CheckOrder)
    /\ \A i \in DOMAIN results : results[i].name = CheckOrder[i]

\* A GET is issued for the check that follows the ones already recorded.
IssuedInTurn ==
    requests' # requests =>
        /\ Len(requests') = Len(requests) + 1
        /\ SubSeq(requests', 1, Len(requests)) = requests
        /\ Len(results) < Len(CheckOrder)
        /\ requests'[Len(requests')].check = CheckOrder[Len(results) + 1]

AppendOnly ==
    results' # results =>
        /\ Len(results') = Len(results) + 1
        /\ SubSeq(results', 1, Len(results)) = results

\* C6: the checks run one after the other in the order API Health, API Root,
\* Dashboard, then (multi-tenant only) Workspaces: a check's request is issued
\* only after the previous check has returned its result, and results is
\* append-only, holding the entries in that order, none changed or removed.
C6_SequentialAppendOnly ==
    /\ [](ResultsInOrder)
    /\ [](Recorded("Workspaces") => AUTH_MODE = "multi-tenant")
    /\ [][IssuedInTurn /\ AppendOnly]_vars

\* All four entries in place, in order, with mixed values.
C6_Witness ==
    /\ Len(results) = 4
    /\ \A i \in 1..4 : results[i].name = CheckOrder[i]
    /\ ~results[1].passed
    /\ results[2].passed
    /\ ~results[3].passed
    /\ results[4].passed

----------------------------------------------------------------------------
(* C7 *)

AllResponses200 ==
    \A j \in DOMAIN requests :
        requests[j].outcome.exc = "none" /\ requests[j].outcome.status = 200

OnlyDashboard500 ==
    \A j \in DOMAIN requests :
        /\ requests[j].outcome.exc = "none"
        /\ requests[j].outcome.status
              = (IF requests[j].url = DASHBOARD_URL THEN 500 ELSE 200)

\* C7: the summary reports passed/total, total being the number of checks
\* executed (3, or 4 in multi-tenant mode) and passed the number of true
\* entries, so 0 <= passed <= total; all four endpoints returning 200 gives
\* 4/4 and exit code 0; only the dashboard returning 500 gives (N-1)/N with
\* Dashboard failed and exit code 1.
C7_SummaryCounts ==
    pc = "done" =>
        /\ total = <<NumChecksConfigured>>
        /\ total = <<Cardinality({c \in {CheckOrder[k] : k \in 1..4} : GetsOfCheck(c) # {}})>>
        /\ passed = <<Cardinality({i \in DOMAIN results : results[i].passed})>>
        /\ 0 <= passed[1] /\ passed[1] <= total[1]
        /\ (AllResponses200 /\ AUTH_MODE = "multi-tenant") =>
              passed = <<4>> /\ total = <<4>> /\ exit_code = <<0>>
        /\ OnlyDashboard500 =>
              /\ passed = <<total[1] - 1>>
              /\ ~ResultOf("Dashboard")
              /\ exit_code = <<1>>

\* The dashboard-down scenario in multi-tenant mode: 3/4, exit code 1.
C7_Witness ==
    /\ pc = "done"
    /\ OnlyDashboard500
    /\ passed = <<3>>
    /\ total = <<4>>
    /\ exit_code = <<1>>

----------------------------------------------------------------------------
(* C8 *)

\* C8: the health check has no failure mode of its own: whenever its first
\* GET is not a 200 with a body that parses (other status, exception, or
\* unparseable body), the generic checker is called on /health and the
\* recorded API Health result is exactly what that call returned; an
\* unparseable body alone never makes the check fail.
C8_HealthFallsBackToGeneric ==
    (requests # <<>> /\ pc # "test_api_health_fallback") =>
        LET first == requests[1].outcome IN
        /\ (first.exc = "none" /\ first.status = 200 /\ first.json_ok)
              => ResultOf("API Health")
        /\ ~(first.exc = "none" /\ first.status = 200 /\ first.json_ok) =>
              /\ Len(requests) >= 2
              /\ requests[2].url = HEALTH_URL
              /\ ResultOf("API Health")
                    = test_endpoint(requests[2].outcome, DefaultExpectedStatus)
              /\ pc = "test_api_root" =>
                    /\ call # <<>> /\ call[1].url = HEALTH_URL
                    /\ ret = <<ResultOf("API Health")>>

\* The body of a 200 did not parse, the generic checker got a 200 and the
\* check passed.
C8_Witness ==
    /\ pc = "test_api_root"
    /\ Len(requests) = 2
    /\ requests[1].outcome = Response(200, FALSE)
    /\ requests[2].outcome.status = 200
    /\ ResultOf("API Health")

----------------------------------------------------------------------------
(* C9 *)

\* C9: test_endpoint(url, name, expected_status, timeout) returns true if and
\* only if the GET completes without exception and the status equals
\* expected_status or is one of 200, 301, 302, 304; a status equal to
\* expected_status passes also when it is outside that set; connection
\* failure, timeout, other exceptions and other statuses all give false.
C9_TestEndpointContract ==
    pc \in {"returned", "aborted"} =>
        LET o == requests[Len(requests)].outcome
            e == call[1].expected_status
        IN  /\ pc = "returned"
            /\ ret \in {<<TRUE>>, <<FALSE>>}
            /\ ret = <<TRUE>> <=>
                  (o.exc = "none" /\ (o.status = e \/ o.status \in SuccessStatuses))
            /\ (o.exc = "none" /\ o.status = e) => ret = <<TRUE>>
            /\ o.exc \in Exceptions => ret = <<FALSE>>

\* expected_status = 404 and a 404 response: passes.
C9_Witness ==
    /\ pc = "returned"
    /\ call[1].expected_status = 404
    /\ requests[1].outcome.status = 404
    /\ ret = <<TRUE>>

----------------------------------------------------------------------------
(* C10 *)

\* C10: the recorded API Health result is decided by the last GET issued to
\* {API_URL}/health alone: it is true if and only if that request completed
\* without exception with a status in {200, 301, 302, 304}; the outcome of an
\* earlier GET to /health is discarded and never makes the result false.
C10_HealthDecidedByLastGet ==
    Recorded("API Health") =>
        LET gets == GetsToURL(HEALTH_URL)
            last == CHOOSE j \in gets : \A k \in gets : k <= j
        IN  /\ ResultOf("API Health") = Succeeded(requests[last].outcome)
            /\ Succeeded(requests[last].outcome) => ResultOf("API Health")

\* The first GET to /health raised, the second got a redirect status, and
\* the check is recorded as passed.
C10_Witness ==
    /\ Recorded("API Health")
    /\ Cardinality(GetsToURL(HEALTH_URL)) = 2
    /\ requests[1].outcome.exc = "ConnectionError"
    /\ requests[2].outcome.status = 302
    /\ ResultOf("API Health")

====
